---- MODULE Spec2Model ----
(***************************************************************************)
(* Model of the HTTP front end of poolprovider-for-k8s (src/main.go): the  *)
(* route table built in main, the dispatch of one request to one handler,  *)
(* and the five handlers RootHandler, PingHandler, VersionHandler,         *)
(* PayloadHandler and KubernetesCreateHandler.                             *)
(*                                                                         *)
(* Every request is served by its own worker.  A worker can wait at the    *)
(* calls a handler makes out of the process or into state all requests     *)
(* share: the Storage probe (s.Ping), the read of the request body         *)
(* (ioutil.ReadAll), the pod creation (CreatePod) and every call of the    *)
(* standard logger, which takes the logger's lock, writes the line to      *)
(* stderr and releases the lock.  What the log lines say is not modelled.  *)
(*                                                                         *)
(* Texts whose bytes matter to formatting (probe results, error messages,  *)
(* request bodies) are sequences of one-character strings; what a handler  *)
(* writes is a sequence of strings, one per Fprint call, and the response  *)
(* body is their concatenation.                                            *)
(***************************************************************************)
EXTENDS Naturals, Sequences, FiniteSets, TLC

(***************************************************************************)
(* Bounds of the model.                                                    *)
(***************************************************************************)
\* number of concurrent workers of the concurrent specifications
NReq == 2
\* longest request path, in segments
MaxSegs == 2
\* longest text (probe result, error message, request body), in characters
MaxLen == 2
\* most values one header name carries
MaxVals == 2

(***************************************************************************)
(* Program constants.                                                      *)
(***************************************************************************)
Name == "divman's GoServer"
Version == "1.0.0"
StatusSeeOther == 303
StatusInternalServerError == 500
StatusOK == 200

(***************************************************************************)
(* Input domains.                                                          *)
(***************************************************************************)
SeqsUpTo(S, n) == UNION {[1..k -> S] : k \in 0..n}

\* characters of texts: a letter, the format metacharacter, a format flag
Chars == {"a", "%", " "}
Texts == SeqsUpTo(Chars, MaxLen)

\* request methods; CONNECT, which the multiplexer treats apart, is not among them
Methods == {"GET", "POST"}

\* a path is "/" followed by its segments joined by "/"; an empty segment
\* stands for a doubled or trailing slash
Segs == {"ping", "version", "payload", "kubecreate", "foo", ""}
Paths == SeqsUpTo(Segs, MaxSegs) \ {<<"">>}

HeaderKeys == {"Accept", "X-Test"}
HeaderVals == {"a", "b"}
Headers == UNION {[K -> (SeqsUpTo(HeaderVals, MaxVals) \ {<<>>})] : K \in SUBSET HeaderKeys}

Requests == [method : Methods, path : Paths, header : Headers, body : Texts]

\* what one Storage probe returns: (res, nil) or (_, err) with err.Error() = text
ProbeOutcomes == [ok : BOOLEAN, text : Texts]

\* what the external pod-creation operation returns
PodResults == {"", "pod-1"}

\* the inputs of the concurrent specifications
ConcPaths == {<<>>, <<"ping">>, <<"version">>, <<"payload">>, <<"kubecreate">>, <<"foo">>}
ConcRequests == [method : Methods, path : ConcPaths, header : {<<>>}, body : {<<"a">>}]
ConcOutcomes == {[ok |-> TRUE, text |-> <<"a">>], [ok |-> FALSE, text |-> <<"a">>],
                 [ok |-> TRUE, text |-> <<"a", "a">>]}

Reqs == 1..NReq

(***************************************************************************)
(* Text helpers.                                                           *)
(***************************************************************************)
RECURSIVE Flat(_)
\* the string made of the pieces of s, in order
Flat(s) == IF s = <<>> THEN "" ELSE Head(s) \o Flat(Tail(s))

\* the orders in which the keys of a map can be visited
Perms(K) == {o \in [1..Cardinality(K) -> K] : \A i, j \in DOMAIN o : i # j => o[i] # o[j]}

\* fmt: flags that may follow '%'
Flags == {"#", "0", "+", "-", " "}

RECURSIVE SkipFlags(_)
SkipFlags(f) == IF f # <<>> /\ Head(f) \in Flags THEN SkipFlags(Tail(f)) ELSE f

RECURSIVE Sprintf(_)
\* fmt.Sprintf(format) with no operands, for formats without width,
\* precision or argument index: text is copied, "%%" gives "%", a verb has
\* no operand to consume and a trailing '%' has no verb.
Sprintf(f) ==
    IF f = <<>> THEN ""
    ELSE IF Head(f) # "%" THEN Head(f) \o Sprintf(Tail(f))
    ELSE LET rest == SkipFlags(Tail(f)) IN
         IF rest = <<>> THEN "%!(NOVERB)"
         ELSE IF Head(rest) = "%" THEN "%" \o Sprintf(Tail(rest))
         ELSE "%!" \o Head(rest) \o "(MISSING)" \o Sprintf(Tail(rest))

\* fmt.Sprintln of one string operand
Sprintln(s) == Flat(s) \o "\n"

(***************************************************************************)
(* Paths and the route table.                                              *)
(***************************************************************************)
RECURSIVE JoinSegs(_)
JoinSegs(segs) ==
    IF segs = <<>> THEN ""
    ELSE IF Len(segs) = 1 THEN Head(segs)
    ELSE Head(segs) \o "/" \o JoinSegs(Tail(segs))

PathString(segs) == "/" \o JoinSegs(segs)

IsNonEmpty(s) == s # ""

\* the multiplexer's canonical form of a path: repeated slashes removed,
\* the trailing slash kept
cleanPath(p) ==
    LET np == SelectSeq(p, IsNonEmpty)
    IN  IF p # <<>> /\ p[Len(p)] = "" /\ np # <<>> THEN Append(np, "") ELSE np

\* the table main registers; a pattern is a path
RouteTable ==
    (<<>> :> "RootHandler") @@
    (<<"ping">> :> "PingHandler") @@
    (<<"version">> :> "VersionHandler") @@
    (<<"payload">> :> "PayloadHandler") @@
    (<<"kubecreate">> :> "KubernetesCreateHandler")

Registered == {"RootHandler", "PingHandler", "VersionHandler", "PayloadHandler",
               "KubernetesCreateHandler"}

\* a pattern that ends in "/" names a subtree
IsSubtree(pat) == pat = <<>> \/ pat[Len(pat)] = ""

\* the string of pat is a prefix of the string of path, pat a subtree pattern
HasPrefix(path, pat) ==
    \/ pat = <<>>
    \/ /\ Len(path) >= Len(pat)
       /\ \A i \in 1..(Len(pat) - 1) : path[i] = pat[i]

\* ServeMux.match: the exact pattern, else the longest subtree pattern
\* that is a prefix of the path, else none
Match(mux, path) ==
    IF path \in DOMAIN mux THEN mux[path]
    ELSE LET cands == {pat \in DOMAIN mux : IsSubtree(pat) /\ HasPrefix(path, pat)}
         IN  IF cands = {} THEN "NotFoundHandler"
             ELSE mux[CHOOSE pat \in cands : \A q \in cands : Len(q) <= Len(pat)]

\* a variant that routes by method as well as by path
ServeMuxHandlerByMethod(mux, r) ==
    IF r.path # cleanPath(r.path) THEN "RedirectHandler"
    ELSE IF r.method = "POST" /\ r.path = <<"ping">> THEN "PayloadHandler"
    ELSE Match(mux, r.path)

\* ServeMux.Handler: a path that is not canonical is answered by a
\* redirect to its canonical form, any other by the matching handler
ServeMuxHandler(mux, r) ==
    IF r.path # cleanPath(r.path) THEN "RedirectHandler"
    ELSE Match(mux, r.path)

(***************************************************************************)
(* Responses and handlers.                                                 *)
(***************************************************************************)
\* a response sink: the status line, the Location header, the writes
Response(status, location, writes) ==
    [status |-> status, location |-> location, writes |-> writes]

NoResponse == Response(0, "", <<>>)

\* the bytes of the response body
Body(rsp) == Flat(rsp.writes)

StatusText(code) ==
    IF code = StatusSeeOther THEN "See Other"
    ELSE IF code = 301 THEN "Moved Permanently"
    ELSE ""

\* http.Redirect to a rooted url: the Location header, the status, and
\* for a GET a short hypertext note
Redirect(r, url, code) ==
    Response(code, url,
             IF r.method = "GET"
             THEN <<"<a href=\"" \o url \o "\">" \o StatusText(code) \o "</a>.\n" \o "\n">>
             ELSE <<>>)

\* a variant that redirects with 302 Found
RootHandlerFound(r) == Redirect(r, "/ping", 302)

RootHandler(r) == Redirect(r, "/ping", StatusSeeOther)

\* the multiplexer's own answers
RedirectHandler(r) == Redirect(r, PathString(cleanPath(r.path)), 301)

NotFoundHandler(r) == Response(404, "", <<"404 page not found\n">>)

\* a variant that leaves the name out
VersionHandlerNoName(r) == Response(StatusOK, "", <<"v" \o Version \o "\n">>)

VersionHandler(r) == Response(StatusOK, "", <<Name \o " v" \o Version \o "\n">>)

\* a variant that keeps the probe's result in a place all requests share,
\* where the handler finds what another request left
ProbeResultShared(r, own, rets) == rets[CHOOSE q \in DOMAIN rets : q # r]

\* res, err := s.Ping(): the result is bound to locals of the invocation
ProbeResult(r, own, rets) == own

\* a variant that writes the result without the newline
PingHandlerNoNewline(ret) ==
    IF ~ret.ok
    THEN Response(StatusInternalServerError, "", <<Sprintf(ret.text)>>)
    ELSE Response(StatusOK, "", <<Flat(ret.text)>>)

\* PingHandler from the return of the probe on: the error message is the
\* format of Fprintf, the result the operand of Fprintln
PingHandler(ret) ==
    IF ~ret.ok
    THEN Response(StatusInternalServerError, "", <<Sprintf(ret.text)>>)
    ELSE Response(StatusOK, "", <<Sprintln(ret.text)>>)

\* one line per value of one header
ValueLines(key, values) ==
    [i \in 1..Len(values) |-> key \o ": " \o values[i] \o "\n"]

RECURSIVE FirstValueLines(_, _)
\* a variant that writes only the first value of every header
FirstValueLines(header, order) ==
    IF order = <<>> THEN <<>>
    ELSE <<Head(order) \o ": " \o header[Head(order)][1] \o "\n">>
         \o FirstValueLines(header, Tail(order))

RECURSIVE HeaderLines(_, _)
\* the lines of the headers, the keys visited in the given order
HeaderLines(header, order) ==
    IF order = <<>> THEN <<>>
    ELSE ValueLines(Head(order), header[Head(order)]) \o HeaderLines(header, Tail(order))

\* resp.WriteHeader: the first status set is the one sent
WriteHeader(rsp, code) == [rsp EXCEPT !.status = IF @ = 0 THEN code ELSE @]

\* a write to the response; the first write sets the status 200 when none is set
Write(rsp, s) ==
    [rsp EXCEPT !.status = IF @ = 0 THEN StatusOK ELSE @,
                !.writes = Append(@, s)]

\* the two handlers that read the body, on a failed read
ReadFailed(rsp) == WriteHeader(rsp, StatusInternalServerError)

\* PayloadHandler: where the handler is after the body read returned
PayloadAfterRead(readOK) == IF readOK THEN "logging" ELSE "done"

MethodLine(r) == "Method: " \o r.method \o "\n"

PayloadLine(r) == "Payload: " \o Flat(r.body)

\* PayloadHandler: the lines that follow those of the given stage, each
\* logged and then written; the keys of the headers are visited in an order
\* fixed when the loop over them starts
PayloadNext(r, stage, order) ==
    IF stage = "method"
    THEN IF DOMAIN r.header # {}
         THEN [stage |-> "headers", lines |-> <<"Headers:\n">>]
         ELSE [stage |-> "payload", lines |-> <<PayloadLine(r)>>]
    ELSE IF stage = "headers"
    THEN [stage |-> "values", lines |-> HeaderLines(r.header, order)]
    ELSE IF stage = "values"
    THEN [stage |-> "payload", lines |-> <<PayloadLine(r)>>]
    ELSE [stage |-> "", lines |-> <<>>]

\* a variant that goes on to create the pod after a failed body read
KubeAfterReadNoReturn(readOK) == "creating"

\* KubernetesCreateHandler: where the handler is after the body read returned
KubeAfterRead(readOK) == IF readOK THEN "creating" ELSE "done"

\* KubernetesCreateHandler from the return of CreatePod on
KubernetesCreateHandler(rsp, pods) == Write(rsp, "Pods: " \o pods)

(***************************************************************************)
(* State.                                                                  *)
(***************************************************************************)
VARIABLES
    routes,      \* the route table of the multiplexer
    pc,          \* per worker: idle, accepted, probing, reading, creating,
                 \* logging (at a log call), logwrite (in it, lock held), done
    req,         \* per worker: the request it serves
    invoked,     \* per worker: the handlers the dispatcher invoked for the request
    resp,        \* per worker: the response sink
    probeCalls,  \* per worker: calls of Storage.Ping made for the request
    probeRet,    \* per worker: what its probe call returned
    bodyRead,    \* per worker: pending, ok or failed, the outcome of its body read
    podCalls,    \* per worker: calls of CreatePod made for the request
    stage,       \* per worker: the part of the payload dump it is writing
    pending,     \* per worker: the lines of that part still to log and write
    logOwner     \* the worker that holds the lock of the standard logger, or 0

vars == <<routes, pc, req, invoked, resp, probeCalls, probeRet, bodyRead, podCalls,
          stage, pending, logOwner>>

NoRequest == [method |-> "", path |-> <<>>, header |-> <<>>, body |-> <<>>]
NoOutcome == [ok |-> TRUE, text |-> <<>>]

Init ==
    /\ routes = RouteTable
    /\ pc = [r \in Reqs |-> "idle"]
    /\ req = [r \in Reqs |-> NoRequest]
    /\ invoked = [r \in Reqs |-> <<>>]
    /\ resp = [r \in Reqs |-> NoResponse]
    /\ probeCalls = [r \in Reqs |-> 0]
    /\ probeRet = [r \in Reqs |-> NoOutcome]
    /\ bodyRead = [r \in Reqs |-> "pending"]
    /\ podCalls = [r \in Reqs |-> 0]
    /\ stage = [r \in Reqs |-> ""]
    /\ pending = [r \in Reqs |-> <<>>]
    /\ logOwner = 0

(***************************************************************************)
(* Operations.                                                             *)
(***************************************************************************)
\* a variant in which one worker serves all requests, one after the other
RunnableSerial(r) == \A q \in Reqs \ {r} : pc[q] \in {"idle", "accepted", "done"}

\* http.ListenAndServe serves every connection on a worker of its own
Runnable(r) == TRUE

\* the transport accepts a request and hands it to a worker
Accept(r, inputs) ==
    /\ pc[r] = "idle"
    /\ \E q \in inputs : req' = [req EXCEPT ![r] = q]
    /\ pc' = [pc EXCEPT ![r] = "accepted"]
    /\ UNCHANGED <<routes, invoked, resp, probeCalls, probeRet, bodyRead, podCalls,
                   stage, pending, logOwner>>

\* the dispatcher selects the handler and invokes it; the handler runs to
\* its end or to its blocking call
ServeHTTP(r) ==
    /\ pc[r] = "accepted"
    /\ Runnable(r)
    /\ LET h == ServeMuxHandler(routes, req[r]) IN
        /\ invoked' = [invoked EXCEPT ![r] = Append(@, h)]
        /\ IF h = "PingHandler"
           THEN /\ probeCalls' = [probeCalls EXCEPT ![r] = @ + 1]
                /\ pc' = [pc EXCEPT ![r] = "probing"]
                /\ UNCHANGED resp
           ELSE IF h \in {"PayloadHandler", "KubernetesCreateHandler"}
           THEN /\ pc' = [pc EXCEPT ![r] = "reading"]
                /\ UNCHANGED <<resp, probeCalls>>
           ELSE /\ resp' = [resp EXCEPT ![r] =
                               IF h = "RootHandler" THEN RootHandler(req[r])
                               ELSE IF h = "VersionHandler" THEN VersionHandler(req[r])
                               ELSE IF h = "RedirectHandler" THEN RedirectHandler(req[r])
                               ELSE NotFoundHandler(req[r])]
                /\ pc' = [pc EXCEPT ![r] = "done"]
                /\ UNCHANGED probeCalls
    /\ UNCHANGED <<routes, req, probeRet, bodyRead, podCalls, stage, pending, logOwner>>

\* the Storage probe returns and PingHandler writes the response
ProbeReturn(r, outcomes) ==
    /\ pc[r] = "probing"
    /\ \E v \in outcomes :
        /\ probeRet' = [probeRet EXCEPT ![r] = v]
        /\ resp' = [resp EXCEPT ![r] = PingHandler(ProbeResult(r, v, probeRet))]
    /\ pc' = [pc EXCEPT ![r] = "done"]
    /\ UNCHANGED <<routes, req, invoked, probeCalls, bodyRead, podCalls,
                   stage, pending, logOwner>>

\* the body read returns: on an error the handler sets the status 500 and
\* returns; else PayloadHandler sets the status 200 and comes to its first
\* log call, and KubernetesCreateHandler calls CreatePod
BodyReadReturn(r) ==
    /\ pc[r] = "reading"
    /\ \E readOK \in BOOLEAN :
        /\ bodyRead' = [bodyRead EXCEPT ![r] = IF readOK THEN "ok" ELSE "failed"]
        /\ IF invoked[r][Len(invoked[r])] = "PayloadHandler"
           THEN LET at == PayloadAfterRead(readOK) IN
                /\ pc' = [pc EXCEPT ![r] = at]
                /\ resp' = [resp EXCEPT ![r] =
                               IF readOK THEN WriteHeader(@, StatusOK) ELSE ReadFailed(@)]
                /\ stage' = [stage EXCEPT ![r] = IF at = "logging" THEN "method" ELSE ""]
                /\ pending' = [pending EXCEPT ![r] =
                                  IF at = "logging" THEN <<MethodLine(req[r])>> ELSE <<>>]
                /\ UNCHANGED podCalls
           ELSE LET at == KubeAfterRead(readOK) IN
                /\ pc' = [pc EXCEPT ![r] = at]
                /\ resp' = [resp EXCEPT ![r] = IF readOK THEN @ ELSE ReadFailed(@)]
                /\ podCalls' = [podCalls EXCEPT ![r] = IF at = "creating" THEN @ + 1 ELSE @]
                /\ UNCHANGED <<stage, pending>>
    /\ UNCHANGED <<routes, req, invoked, probeCalls, probeRet, logOwner>>

\* CreatePod returns and KubernetesCreateHandler writes its result
CreatePodReturn(r) ==
    /\ pc[r] = "creating"
    /\ \E pods \in PodResults :
        resp' = [resp EXCEPT ![r] = KubernetesCreateHandler(@, pods)]
    /\ pc' = [pc EXCEPT ![r] = "done"]
    /\ UNCHANGED <<routes, req, invoked, probeCalls, probeRet, bodyRead, podCalls,
                   stage, pending, logOwner>>

\* a log call of PayloadHandler takes the lock of the standard logger
LogLock(r) ==
    /\ pc[r] = "logging"
    /\ logOwner = 0
    /\ logOwner' = r
    /\ pc' = [pc EXCEPT ![r] = "logwrite"]
    /\ UNCHANGED <<routes, req, invoked, resp, probeCalls, probeRet, bodyRead, podCalls,
                   stage, pending>>

\* the logger's write to stderr returns and the lock is released; the
\* handler writes the same line to the response and comes to its next log
\* call, or to its end
LogWritten(r) ==
    /\ pc[r] = "logwrite"
    /\ logOwner = r
    /\ logOwner' = 0
    /\ resp' = [resp EXCEPT ![r] = Write(@, Head(pending[r]))]
    /\ IF Tail(pending[r]) # <<>>
       THEN /\ pending' = [pending EXCEPT ![r] = Tail(@)]
            /\ pc' = [pc EXCEPT ![r] = "logging"]
            /\ UNCHANGED stage
       ELSE \E order \in Perms(DOMAIN req[r].header) :
                LET nxt == PayloadNext(req[r], stage[r], order) IN
                /\ stage' = [stage EXCEPT ![r] = nxt.stage]
                /\ pending' = [pending EXCEPT ![r] = nxt.lines]
                /\ pc' = [pc EXCEPT ![r] = IF nxt.lines = <<>> THEN "done" ELSE "logging"]
    /\ UNCHANGED <<routes, req, invoked, probeCalls, probeRet, bodyRead, podCalls>>

\* the response is sent and the worker ends
Close(r) ==
    /\ pc[r] = "done"
    /\ pc' = [pc EXCEPT ![r] = "idle"]
    /\ req' = [req EXCEPT ![r] = NoRequest]
    /\ invoked' = [invoked EXCEPT ![r] = <<>>]
    /\ resp' = [resp EXCEPT ![r] = NoResponse]
    /\ probeCalls' = [probeCalls EXCEPT ![r] = 0]
    /\ probeRet' = [probeRet EXCEPT ![r] = NoOutcome]
    /\ bodyRead' = [bodyRead EXCEPT ![r] = "pending"]
    /\ podCalls' = [podCalls EXCEPT ![r] = 0]
    /\ UNCHANGED <<routes, stage, pending, logOwner>>

(***************************************************************************)
(* Specifications.                                                         *)
(***************************************************************************)
\* one request at a time, over the full input domain
Next ==
    \/ Accept(1, Requests)
    \/ ServeHTTP(1)
    \/ ProbeReturn(1, ProbeOutcomes)
    \/ BodyReadReturn(1)
    \/ CreatePodReturn(1)
    \/ LogLock(1)
    \/ LogWritten(1)
    \/ Close(1)

Spec == Init /\ [][Next]_vars

\* NReq requests in flight at once, over a small input domain
ConcNext ==
    \E r \in Reqs :
        \/ Accept(r, ConcRequests)
        \/ ServeHTTP(r)
        \/ ProbeReturn(r, ConcOutcomes)
        \/ BodyReadReturn(r)
        \/ CreatePodReturn(r)
        \/ LogLock(r)
        \/ LogWritten(r)
        \/ Close(r)

ConcSpec == Init /\ [][ConcNext]_vars

\* a worker that can run does run; the probe, the body read, the pod
\* creation and the logger's write may never return
FairSpec == ConcSpec /\ \A r \in Reqs : WF_vars(ServeHTTP(r))

(***************************************************************************)
(* Properties.                                                             *)
(***************************************************************************)
Done(r) == pc[r] = "done"

\* the expected line of one header value
NameValueLine(k, v) == k \o ": " \o v \o "\n"

\* C1: a request whose path is none of the registered routes invokes none
\* of the five handlers and is answered with status 404.
C1_UnmatchedPathNotFound ==
    \A r \in Reqs :
        (Done(r) /\ req[r].path \notin DOMAIN routes)
            => /\ resp[r].status = 404
               /\ \A i \in DOMAIN invoked[r] : invoked[r][i] \notin Registered

\* C2: when the probe of a request to /ping returns an error, the status is
\* 500 and the body is the error message, byte for byte.
C2_PingErrorVerbatim ==
    \A r \in Reqs :
        (Done(r) /\ req[r].path = <<"ping">> /\ ~probeRet[r].ok)
            => /\ resp[r].status = 500
               /\ Body(resp[r]) = Flat(probeRet[r].text)

\* C3: when the probe of a request to /ping returns a result without error,
\* the probe was called exactly once, the status is 200 and the body is the
\* result followed by one newline.
C3_PingSuccess ==
    \A r \in Reqs :
        (Done(r) /\ req[r].path = <<"ping">> /\ probeRet[r].ok)
            => /\ probeCalls[r] = 1
               /\ resp[r].status = 200
               /\ Body(resp[r]) = Flat(probeRet[r].text) \o "\n"

C3_Witness ==
    \E r \in Reqs :
        /\ Done(r) /\ req[r].path = <<"ping">> /\ req[r].method = "POST"
        /\ req[r].body # <<>>
        /\ probeRet[r].ok /\ probeRet[r].text = <<"a", "%">>
        /\ Body(resp[r]) = "a%\n"

\* C4: a request to the root path is answered with status 303 and the
\* Location /ping; the handler does not block, does not fail and never calls
\* the Storage probe.
C4_RootRedirect ==
    \A r \in Reqs :
        (pc[r] # "idle" /\ req[r].path = <<>>)
            => /\ pc[r] \in {"accepted", "done"}
               /\ probeCalls[r] = 0
               /\ Done(r) => /\ resp[r].status = 303
                             /\ resp[r].location = "/ping"

C4_Witness ==
    \E r \in Reqs :
        /\ Done(r) /\ req[r].path = <<>> /\ req[r].method = "POST"
        /\ req[r].body # <<>> /\ DOMAIN req[r].header # {}
        /\ resp[r].status = 303

\* C5 as stated: the body of the answer to /version is "<Name> v<Version>".
C5_VersionBodyNoNewline ==
    \A r \in Reqs :
        (Done(r) /\ req[r].path = <<"version">>)
            => /\ resp[r].status = 200
               /\ Body(resp[r]) = "divman's GoServer v1.0.0"

\* C5 amended: a request to /version, whatever its method and body, is
\* answered with status 200 and the body "<Name> v<Version>" followed by one
\* newline, the same for all requests.
C5_VersionBody ==
    \A r \in Reqs :
        (Done(r) /\ req[r].path = <<"version">>)
            => /\ resp[r].status = 200
               /\ Body(resp[r]) = "divman's GoServer v1.0.0\n"

C5_Witness ==
    \E r \in Reqs :
        /\ Done(r) /\ req[r].path = <<"version">> /\ req[r].method = "POST"
        /\ req[r].body = <<"%", "a">>
        /\ resp[r].writes # <<>>

\* C6: when the body of a request to /payload is read, the status is 200,
\* the first line written is the method line, the last the "Payload: " line
\* with the bytes of the body, and between them there is exactly one
\* "name: value" line per header value, the values of one header in their
\* order of arrival.
C6_PayloadEcho ==
    \A r \in Reqs :
        (Done(r) /\ req[r].path = <<"payload">> /\ bodyRead[r] = "ok")
            => LET w == resp[r].writes
                   n == Len(w)
                   hdr == req[r].header
                   middle == SubSeq(w, 2, n - 1)
                   IsLineOf(k, l) == \E v \in HeaderVals : l = NameValueLine(k, v)
                   LinesOf(k) == SelectSeq(middle, LAMBDA l : IsLineOf(k, l))
               IN  /\ resp[r].status = 200
                   /\ n >= 2
                   /\ w[1] = "Method: " \o req[r].method \o "\n"
                   /\ w[n] = "Payload: " \o Flat(req[r].body)
                   /\ \A k \in HeaderKeys :
                        LinesOf(k) = IF k \in DOMAIN hdr
                                     THEN [i \in 1..Len(hdr[k]) |-> NameValueLine(k, hdr[k][i])]
                                     ELSE <<>>
                   /\ \A i \in DOMAIN middle :
                        \/ middle[i] = "Headers:\n"
                        \/ \E k \in HeaderKeys : IsLineOf(k, middle[i])

C6_Witness ==
    \E r \in Reqs :
        /\ Done(r) /\ req[r].path = <<"payload">> /\ bodyRead[r] = "ok"
        /\ req[r].method = "POST"
        /\ DOMAIN req[r].header = HeaderKeys
        /\ req[r].header["X-Test"] = <<"b", "a">>
        /\ req[r].body # <<>>
        /\ resp[r].writes[3] = "X-Test: b\n"
        /\ resp[r].writes[4] = "X-Test: a\n"

\* C7: when the body of a request to /payload or /kubecreate cannot be read,
\* the status is 500, nothing is written to the body and the pod-creation
\* operation is not invoked.
C7_BodyReadFailure ==
    \A r \in Reqs :
        (req[r].path \in {<<"payload">>, <<"kubecreate">>} /\ bodyRead[r] = "failed")
            => /\ Done(r)
               /\ resp[r].status = 500
               /\ resp[r].writes = <<>>
               /\ Body(resp[r]) = ""
               /\ podCalls[r] = 0

C7_Witness ==
    \E r \in Reqs :
        /\ Done(r) /\ req[r].path = <<"kubecreate">> /\ bodyRead[r] = "failed"
        /\ req[r].body # <<>>
        /\ resp[r].status = 500

\* C8: of requests to /ping that run at the same time, each is answered
\* with what its own probe call returned, never with the result of another
\* request's call.
C8_OwnProbeResult ==
    \A r \in Reqs :
        (Done(r) /\ req[r].path = <<"ping">>)
            => /\ resp[r].status = IF probeRet[r].ok THEN 200 ELSE 500
               /\ Body(resp[r]) = IF probeRet[r].ok
                                  THEN Flat(probeRet[r].text) \o "\n"
                                  ELSE Flat(probeRet[r].text)

C8_Witness ==
    \E r, q \in Reqs :
        /\ r # q
        /\ Done(r) /\ req[r].path = <<"ping">>
        /\ Done(q) /\ req[q].path = <<"ping">>
        /\ probeRet[r].ok /\ probeRet[q].ok
        /\ probeRet[r].text # probeRet[q].text
        /\ Body(resp[r]) # Body(resp[q])

\* the responses a request can get when it is the only one: they depend on
\* its own request and on what its own blocking call returned
Alone(r) ==
    LET p == req[r].path IN
    IF p = <<"version">> THEN {Response(200, "", <<"divman's GoServer v1.0.0\n">>)}
    ELSE IF p = <<"ping">>
         THEN IF probeRet[r].ok
              THEN {Response(200, "", <<Flat(probeRet[r].text) \o "\n">>)}
              ELSE {Response(500, "", <<Flat(probeRet[r].text)>>)}
    ELSE IF p \in {<<"payload">>, <<"kubecreate">>} /\ bodyRead[r] = "failed"
         THEN {Response(500, "", <<>>)}
    ELSE IF p = <<"payload">>
         THEN {Response(200, "", <<"Method: " \o req[r].method \o "\n",
                                   "Payload: " \o Flat(req[r].body)>>)}
    ELSE IF p = <<"kubecreate">>
         THEN {Response(200, "", <<"Pods: " \o pods>>) : pods \in PodResults}
    ELSE {Response(303, "/ping",
                   IF req[r].method = "GET"
                   THEN <<"<a href=\"/ping\">See Other</a>.\n\n">> ELSE <<>>)}

\* C9: a request whose probe or body read blocks or fails affects only
\* itself: every other request is still dispatched, and every request that
\* completes has the response it gets when it is alone.
C9_Isolation ==
    /\ [](\A r \in Reqs : Done(r) => resp[r] \in Alone(r))
    /\ \A r \in Reqs :
         (pc[r] = "accepted") ~> (pc[r] \in {"probing", "reading", "done"})
    /\ \A r \in Reqs :
         (pc[r] = "accepted" /\ req[r].path = <<"version">>)
            ~> (Done(r) /\ resp[r].status = 200)

C9_Witness ==
    \E r, q \in Reqs :
        /\ r # q
        /\ pc[q] \in {"probing", "reading"}
        /\ Done(r) /\ req[r].path = <<"version">>
        /\ resp[r].status = 200

\* C10: the route table never changes and maps every registered path to
\* one handler; every request has at most one handler invoked, a completed
\* one exactly one, and requests with the same path have the same handler.
C10_SingleDispatch ==
    /\ [][routes' = routes]_vars
    /\ [](/\ \A p \in DOMAIN routes : routes[p] \in Registered
          /\ \A r \in Reqs :
                /\ Len(invoked[r]) <= 1
                /\ pc[r] \in {"probing", "reading", "done"} => Len(invoked[r]) = 1
                /\ (Len(invoked[r]) = 1 /\ req[r].path \in DOMAIN routes)
                        => invoked[r][1] = routes[req[r].path]
          /\ \A r, q \in Reqs :
                (Len(invoked[r]) = 1 /\ Len(invoked[q]) = 1 /\ req[r].path = req[q].path)
                    => invoked[r] = invoked[q])

C10_Witness ==
    \E r, q \in Reqs :
        /\ r # q
        /\ Done(r) /\ Done(q)
        /\ req[r].path = <<"ping">> /\ req[q].path = <<"ping">>
        /\ req[r].method = "GET" /\ req[q].method = "POST"
        /\ invoked[r] = <<"PingHandler">> /\ invoked[q] = <<"PingHandler">>

====
